---------------------------- MODULE Spec2Model ----------------------------
(* A model of the sdiffer structural-difference engine (differ.go, util.go). *)
(* A Differ session is the state; every exported method is one action; the  *)
(* recursive descent doCompare is a recursive operator over a walker state  *)
(* (the diff map, the caller's memory, the panic raised, if any, and a log  *)
(* of the steps taken).                                                     *)
EXTENDS Integers, Sequences, FiniteSets, TLC

VARIABLES
    diffs,          \* Differ.diffs: map fieldName -> diff
    ignores,        \* Differ.ignores
    includes,       \* Differ.includes
    trimSpaces,     \* Differ.trimSpaces
    trimTags,       \* Differ.trimTags
    comparators,    \* Differ.comparators
    sorters,        \* Differ.sorters
    maxDepth,       \* Differ.maxDepth
    diffTmpl,       \* Differ.diffTmpl
    bff,            \* Differ.bff: the lines written to the buffer so far
    mem,            \* the caller's memory (backing arrays, referents, maps) after the last call
    out,            \* how the last call ended: "ok" or the panic it raised
    ret,            \* what the last query returned
    call,           \* history: the last call, [op, arg]
    args,           \* history: the arguments of the last Compare, [a, b, heap]
    stack,          \* the doCompare calls of the running Compare still to run
    mapOrder,       \* the order a.MapKeys() yields keys in during this Compare
    log,            \* history: the steps of the last Compare
    nCompares,      \* history: Compare calls since construction or Reset
    includesCalled  \* history: Includes has been called on this session

vars == <<diffs, ignores, includes, trimSpaces, trimTags, comparators, sorters,
          maxDepth, diffTmpl, bff, mem, out, ret, call, args, stack, mapOrder, log,
          nCompares, includesCalled>>

config == <<ignores, includes, trimSpaces, trimTags, comparators, sorters,
            maxDepth, diffTmpl>>

session == <<diffs, config, bff>>

walk == <<stack, mapOrder, log>>

-----------------------------------------------------------------------------
(* Bounds of the model.                                                     *)

\* Compare calls between two Resets.
MaxCompares == 1
\* Nesting of doCompare calls the Go runtime's stack holds before it aborts
\* the process with "stack overflow"; above any descent the depth guard stops.
MaxStack == 80
\* Entries of the comparator, sorter and trim lists.
MaxRules == 2
\* Lines the buffer holds.
MaxBuf == 4

-----------------------------------------------------------------------------
(* Constants of differ.go.                                                  *)

ignoreMode == "ignoreMode"
includeMode == "includeMode"
allDiffMode == "allDiffMode"

initTypeName == "$"
null == "<nil>"
notNull == "<not nil>"
useComparatorSuffix == ".$[customized]"
defaultDepthLimit == 30

\* The panics of differ.go, and those the reflect package and the runtime raise.
depthPanic == "depth over limit"
invalidPanic == "value invalid"
typePanic == "type mismatch"
protocolPanic == "customized comparator returned an unexpected DiffType"
interfacePanic == "unexpected interface"
reflectPanic == "reflect: call of a Value method on a zero Value or the wrong Kind"
stackOverflow == "stack overflow"

\* DiffType, the outcome codes of a Comparator.
LengthDiff == "LengthDiff"
NilDiff == "NilDiff"
ElemDiff == "ElemDiff"
NoDiff == "NoDiff"

-----------------------------------------------------------------------------
(* reflect.Value. A value is a record with its Kind, its Type (the type's   *)
(* identity) and Type().Name() ("" for an unnamed type). Slices, pointers   *)
(* and maps hold an address into the heap (0: nil): a slice's backing array *)
(* is a sequence, a pointer's referent a one-element sequence, a map a      *)
(* function from its keys. A string is the sequence of its characters.      *)

Invalid == [kind |-> "Invalid", type |-> "", name |-> ""]
IntV(n) == [kind |-> "Int", type |-> "int", name |-> "int", v |-> n]
Float64V(n) == [kind |-> "Float64", type |-> "float64", name |-> "float64", v |-> n]
StringV(s) == [kind |-> "String", type |-> "string", name |-> "string", v |-> s]
StructV(t, ns, fs) == [kind |-> "Struct", type |-> t, name |-> t, names |-> ns, fields |-> fs]
ArrayV(t, es) == [kind |-> "Array", type |-> t, name |-> "", elems |-> es]
SliceV(t, p, n) == [kind |-> "Slice", type |-> t, name |-> "", ptr |-> p, len |-> n]
PtrV(t, n, p) == [kind |-> "Ptr", type |-> t, name |-> n, ptr |-> p]
MapV(t, p) == [kind |-> "Map", type |-> t, name |-> "", ptr |-> p]
InterfaceV(d) == [kind |-> "Interface", type |-> "interface {}", name |-> "", dyn |-> d]

IsValid(v) == v.kind # "Invalid"

CanNil(v) == v.kind \in {"Slice", "Ptr", "Map", "Interface"}

IsNil(v) == IF v.kind = "Interface" THEN v.dyn.kind = "Invalid" ELSE v.ptr = 0

CanLen(v) == v.kind \in {"Array", "Slice", "Map", "String"}

LenOf(h, v) ==
    CASE v.kind = "Array" -> Len(v.elems)
      [] v.kind = "Slice" -> v.len
      [] v.kind = "String" -> Len(v.v)
      [] v.kind = "Map" -> IF v.ptr = 0 THEN 0 ELSE Cardinality(DOMAIN h[v.ptr])

Index(h, v, i) == IF v.kind = "Array" THEN v.elems[i + 1] ELSE h[v.ptr][i + 1]

Elem(h, v) == IF v.ptr = 0 THEN Invalid ELSE h[v.ptr][1]

MapIndex(h, v, k) ==
    IF v.ptr # 0 /\ k \in DOMAIN h[v.ptr] THEN h[v.ptr][k] ELSE Invalid

\* a.MapKeys(): the keys in the order this run of the program yields them.
MapKeys(h, v, order) ==
    IF v.ptr = 0 THEN <<>>
    ELSE SelectSeq(order, LAMBDA k : k \in DOMAIN h[v.ptr])

-----------------------------------------------------------------------------
(* util.go                                                                  *)

\* strings.TrimSpace(str) leaves nothing: a type name is blank only when empty.
isStringBlank(str) == str \in {"", " "}

iF(condition, a, b) == IF condition THEN a ELSE b

minInt(a, b) == IF a < b THEN a ELSE b

concat3(x, y, z) == x \o y \o z

concat4(w, x, y, z) == w \o x \o y \o z

\* fmt.Sprintf("%v", i) of a map key; the keys of the model are strings, which
\* %v prints as they are.
toString(i) == i

\* copySliceValue: a new backing array holding the slice's elements.
copySliceValue(h, sv) ==
    [heap |-> Append(h, IF sv.ptr = 0 THEN <<>> ELSE SubSeq(h[sv.ptr], 1, sv.len)),
     v |-> SliceV(sv.type, Len(h) + 1, sv.len)]

\* ai.(string), ai.(float64), ai.(bool), ai.([]interface{}), ai.(map[string]interface{})
parseStringValue(a) == a.dyn.type = "string"
parseFloatValue(a) == a.dyn.type = "float64"
parseBoolValue(a) == a.dyn.type = "bool"
parseArrayValue(a) == a.dyn.type = "[]interface {}"
parseMapValue(a) == a.dyn.type = "map[string]interface {}"

-----------------------------------------------------------------------------
(* Regular expressions, by the set of field paths they match; an expression *)
(* that does not compile matches nothing.                                   *)

Re(paths) == [ok |-> TRUE, lang |-> paths]
BadRe == [ok |-> FALSE, lang |-> {}]
MatchString(re, s) == s \in re.lang

-----------------------------------------------------------------------------
(* Strings: strings.TrimSpace, and trimTag.Trim (strings.Trim by a cutset). *)

InCutset(c, cutset) == \E i \in 1..Len(cutset) : cutset[i] = c

RECURSIVE TrimLeft(_, _)
TrimLeft(s, cutset) ==
    IF s # <<>> /\ InCutset(Head(s), cutset) THEN TrimLeft(Tail(s), cutset) ELSE s

RECURSIVE TrimRight(_, _)
TrimRight(s, cutset) ==
    IF s # <<>> /\ InCutset(s[Len(s)], cutset)
    THEN TrimRight(SubSeq(s, 1, Len(s) - 1), cutset)
    ELSE s

Trim(s, cutset) == TrimRight(TrimLeft(s, cutset), cutset)

TrimSpace(s) == Trim(s, <<" ", "\t", "\n", "\r">>)

newTrimTag(fieldPath, cutset) == [fieldRegexp |-> fieldPath, cutset |-> cutset]

-----------------------------------------------------------------------------
(* Sorters and qsort. A Sorter is a matcher and an ordering predicate; the  *)
(* sorters of the model order the elements by their value (a struct by its  *)
(* first field), ascending or descending.                                   *)

SortKey(v) == IF v.kind = "Struct" THEN v.fields[1].v ELSE v.v

Less(sorter, x, y) ==
    IF sorter.desc THEN SortKey(x) > SortKey(y) ELSE SortKey(x) < SortKey(y)

RECURSIVE InsertSorted(_, _, _)
InsertSorted(sorter, sorted, x) ==
    IF sorted = <<>> THEN <<x>>
    ELSE IF Less(sorter, x, sorted[Len(sorted)])
         THEN Append(InsertSorted(sorter, SubSeq(sorted, 1, Len(sorted) - 1), x),
                     sorted[Len(sorted)])
         ELSE Append(sorted, x)

RECURSIVE StableSort(_, _)
StableSort(sorter, s) ==
    IF s = <<>> THEN <<>>
    ELSE InsertSorted(sorter, StableSort(sorter, SubSeq(s, 1, Len(s) - 1)), s[Len(s)])

\* qsort(sv, less): sorts the slice's elements in its backing array.
qsort(h, sv, sorter) ==
    IF sv.ptr = 0 THEN h
    ELSE [h EXCEPT ![sv.ptr] =
            StableSort(sorter, SubSeq(@, 1, sv.len)) \o SubSeq(@, sv.len + 1, Len(@))]

-----------------------------------------------------------------------------
(* The walker state of one Compare: the diff map, the caller's memory, the  *)
(* panic raised ("ok": none), the order map keys are yielded in, the calls  *)
(* of doCompare still to run (the next one first), and the log of the steps *)
(* taken: visit (a doCompare call), setDiff, comparator, sort, trimSpace,   *)
(* trimTag.                                                                 *)

Event(ev, path, depth, sp, s) ==
    [ev |-> ev, path |-> path, depth |-> depth, sp |-> sp, s |-> s]

Note(st, e) == [st EXCEPT !.log = Append(@, e)]

Panic(st, why) == [st EXCEPT !.out = why]

Put(f, k, v) == [x \in DOMAIN f \cup {k} |-> IF x = k THEN v ELSE f[x]]

newDiff(fieldName, va, vb) == [field |-> fieldName, a |-> va, b |-> vb]

\* getDiffMode with the exclude list looked at first.
getDiffModeIgnoreFirst ==
    IF Len(ignores) > 0 THEN ignoreMode
    ELSE IF Len(includes) > 0 THEN includeMode
    ELSE allDiffMode

getDiffMode ==
    IF Len(includes) > 0 THEN includeMode
    ELSE IF Len(ignores) > 0 THEN ignoreMode
    ELSE allDiffMode

isIncludedField(fieldName) ==
    \E i \in 1..Len(includes) : MatchString(includes[i], fieldName)

isIgnoredField(fieldName) ==
    \E i \in 1..Len(ignores) : MatchString(ignores[i], fieldName)

\* setDiff with the include list never consulted.
setDiffIgnoreOnly(st, fieldName, va, vb) ==
    LET mode == getDiffMode
        dropped == mode = ignoreMode /\ isIgnoredField(fieldName)
        st1 == Note(st, Event("setDiff", fieldName, 0, 0,
                              IF dropped THEN mode ELSE "stored"))
    IN  IF dropped THEN st1
        ELSE [st1 EXCEPT !.diffs = Put(@, fieldName, newDiff(fieldName, va, vb))]

setDiff(st, fieldName, va, vb) ==
    LET mode == getDiffMode
        dropped == \/ mode = includeMode /\ ~isIncludedField(fieldName)
                   \/ mode = ignoreMode /\ isIgnoredField(fieldName)
        st1 == Note(st, Event("setDiff", fieldName, 0, 0,
                              IF dropped THEN mode ELSE "stored"))
    IN  IF dropped THEN st1
        ELSE [st1 EXCEPT !.diffs = Put(@, fieldName, newDiff(fieldName, va, vb))]

\* a.IsNil() panics on a Kind that has no nil.
setNilDiff(st, fieldName, a, b) ==
    IF ~CanNil(a) \/ ~CanNil(b) THEN Panic(st, reflectPanic)
    ELSE setDiff(st, fieldName, iF(IsNil(a), null, notNull), iF(IsNil(b), null, notNull))

\* a.Len() panics on a Kind that has no length.
setLenDiff(st, fieldName, a, b) ==
    IF ~CanLen(a) \/ ~CanLen(b) THEN Panic(st, reflectPanic)
    ELSE setDiff(st, fieldName \o "[Length]", LenOf(st.heap, a), LenOf(st.heap, b))

\* sortSlice sorting the caller's slices themselves.
sortSliceInPlace(h, sa, sb, sorter) ==
    [heap |-> qsort(qsort(h, sa, sorter), sb, sorter), sa |-> sa, sb |-> sb]

\* sortSlice: both slices copied, the copies sorted.
sortSlice(h, sa, sb, sorter) ==
    LET ca == copySliceValue(h, sa)
        cb == copySliceValue(ca.heap, sb)
    IN  [heap |-> qsort(qsort(cb.heap, ca.v, sorter), cb.v, sorter),
         sa |-> ca.v, sb |-> cb.v]

\* reflect.DeepEqual of two leaves of one type.
DeepEqual(x, y) == x = y

\* The first entry of a rule list whose matcher matches the path (0: none):
\* the loops of doCompare return or break at the first match.
FirstMatch(rules, fieldPath) ==
    IF \E i \in 1..Len(rules) : MatchString(rules[i].match, fieldPath)
    THEN CHOOSE i \in 1..Len(rules) :
            /\ MatchString(rules[i].match, fieldPath)
            /\ \A j \in 1..(i - 1) : ~MatchString(rules[j].match, fieldPath)
    ELSE 0

\* The comparator loop running to the end of the list: the last match wins.
LastComparator(fieldPath) ==
    IF \E i \in 1..Len(comparators) : MatchString(comparators[i].match, fieldPath)
    THEN CHOOSE i \in 1..Len(comparators) :
            /\ MatchString(comparators[i].match, fieldPath)
            /\ \A j \in (i + 1)..Len(comparators) :
                    ~MatchString(comparators[j].match, fieldPath)
    ELSE 0

FirstComparator(fieldPath) == FirstMatch(comparators, fieldPath)

FirstSorter(fieldPath) == FirstMatch(sorters, fieldPath)

FirstTrimSpace(fieldPath) ==
    FirstMatch([i \in 1..Len(trimSpaces) |-> [match |-> trimSpaces[i]]], fieldPath)

FirstTrimTag(fieldPath) ==
    FirstMatch([i \in 1..Len(trimTags) |-> [match |-> trimTags[i].fieldRegexp]], fieldPath)

\* The comparator override of doCompare: c.Equals decides, nothing descends.
useComparator(st, c, a, b, path, depth, sp) ==
    LET fieldPath == path \o useComparatorSuffix
        st1 == Note(st, Event("comparator", path, depth, sp, c.id))
    IN  CASE c.dt = LengthDiff -> setLenDiff(st1, fieldPath, a, b)
          [] c.dt = NilDiff -> setNilDiff(st1, fieldPath, a, b)
          [] c.dt = ElemDiff -> setDiff(st1, fieldPath, c.va, c.vb)
          [] c.dt = NoDiff -> st1
          [] OTHER -> Panic(st1, protocolPanic)

\* case String with the trimTags loop ahead of the trimSpaces loop.
compareStringTagsFirst(st, a, b, fieldPath, depth, sp) ==
    LET ts == FirstTrimSpace(fieldPath)
        tt == FirstTrimTag(fieldPath)
    IN  IF tt # 0
        THEN LET st1 == Note(st, Event("trimTag", fieldPath, depth, sp, ""))
             IN  IF ~DeepEqual(Trim(a.v, trimTags[tt].cutset), Trim(b.v, trimTags[tt].cutset))
                 THEN setDiff(st1, fieldPath, a, b)
                 ELSE st1
        ELSE IF ts # 0
        THEN LET st1 == Note(st, Event("trimSpace", fieldPath, depth, sp, ""))
             IN  IF ~DeepEqual(TrimSpace(a.v), TrimSpace(b.v))
                 THEN setDiff(st1, fieldPath, a, b)
                 ELSE st1
        ELSE IF ~DeepEqual(a.v, b.v) THEN setDiff(st, fieldPath, a, b) ELSE st

\* case String of doCompare: the trimSpaces loop, then the trimTags loop, then
\* the fallthrough to DeepEqual.
compareString(st, a, b, fieldPath, depth, sp) ==
    LET ts == FirstTrimSpace(fieldPath)
        tt == FirstTrimTag(fieldPath)
    IN  IF ts # 0
        THEN LET st1 == Note(st, Event("trimSpace", fieldPath, depth, sp, ""))
             IN  IF ~DeepEqual(TrimSpace(a.v), TrimSpace(b.v))
                 THEN setDiff(st1, fieldPath, a, b)
                 ELSE st1
        ELSE IF tt # 0
        THEN LET st1 == Note(st, Event("trimTag", fieldPath, depth, sp, ""))
             IN  IF ~DeepEqual(Trim(a.v, trimTags[tt].cutset), Trim(b.v, trimTags[tt].cutset))
                 THEN setDiff(st1, fieldPath, a, b)
                 ELSE st1
        ELSE IF ~DeepEqual(a.v, b.v) THEN setDiff(st, fieldPath, a, b) ELSE st

\* One pending call doCompare(a, b, fieldPath, depth); sp is its nesting.
Task(a, b, fieldPath, depth, sp) ==
    [a |-> a, b |-> b, path |-> fieldPath, depth |-> depth, sp |-> sp]

\* The calls a call makes run, in their order, before whatever was pending.
Descend(st, tasks) == [st EXCEPT !.stack = tasks \o @]

\* case Array: the loop over the elements, each under its type's name.
compareArray(st, a, b, depth, sp) ==
    Descend(st, [i \in 1..minInt(LenOf(st.heap, a), LenOf(st.heap, b)) |->
                    Task(Index(st.heap, a, i - 1), Index(st.heap, b, i - 1),
                         Index(st.heap, a, i - 1).name, depth, sp + 1)])

\* case Slice: the loop over the shared prefix.
compareSlice(st, a, b, fieldPath, depth, sp) ==
    Descend(st, [i \in 1..minInt(a.len, b.len) |->
                    Task(Index(st.heap, a, i - 1), Index(st.heap, b, i - 1),
                         concat4(fieldPath, "[", ToString(i - 1), "]"), depth, sp + 1)])

\* case Struct: the loop over the fields, one level deeper.
compareFields(st, a, b, fieldPath, depth, sp) ==
    Descend(st, [i \in 1..Len(a.fields) |->
                    Task(a.fields[i], b.fields[i],
                         concat3(fieldPath, ".", a.names[i]), depth + 1, sp + 1)])

\* case Map: the loop over a's keys; a key b lacks yields the zero Value.
compareKeys(st, a, b, fieldPath, depth, sp, keys) ==
    Descend(st, [i \in 1..Len(keys) |->
                    Task(MapIndex(st.heap, a, keys[i]), MapIndex(st.heap, b, keys[i]),
                         concat4(fieldPath, "[", toString(keys[i]), "]"), depth, sp + 1)])

\* The switch on a.Kind() of doCompare.
compareKind(st, a, b, fieldPath, depth, sp) ==
    CASE a.kind = "Array" -> compareArray(st, a, b, depth, sp)
      [] a.kind = "Slice" ->
            IF IsNil(a) # IsNil(b) THEN setNilDiff(st, fieldPath, a, b)
            ELSE LET st1 == IF a.len # b.len THEN setLenDiff(st, fieldPath, a, b) ELSE st
                     s == FirstSorter(fieldPath)
                 IN  IF a.ptr = b.ptr THEN st1
                     ELSE IF s # 0
                     THEN LET r == sortSlice(st1.heap, a, b, sorters[s])
                          IN  compareSlice(
                                [Note(st1, Event("sort", fieldPath, depth, sp, sorters[s].id))
                                    EXCEPT !.heap = r.heap],
                                r.sa, r.sb, fieldPath, depth, sp)
                     ELSE compareSlice(st1, a, b, fieldPath, depth, sp)
      [] a.kind = "Interface" ->
            IF IsNil(a) # IsNil(b) THEN setNilDiff(st, fieldPath, a, b)
            ELSE IF parseStringValue(a) \/ parseFloatValue(a) \/ parseBoolValue(a)
                    \/ parseArrayValue(a)
            THEN Descend(st, <<Task(a.dyn, b.dyn, fieldPath, depth, sp + 1)>>)
            ELSE IF parseMapValue(a)
            THEN Descend(st, <<Task(a.dyn, b.dyn, fieldPath, depth + 1, sp + 1)>>)
            ELSE Panic(st, interfacePanic)
      [] a.kind = "Ptr" ->
            IF IsNil(a) # IsNil(b) THEN setNilDiff(st, fieldPath, a, b)
            ELSE IF a.ptr # b.ptr
            THEN Descend(st, <<Task(Elem(st.heap, a), Elem(st.heap, b), fieldPath, depth,
                                    sp + 1)>>)
            ELSE st
      [] a.kind = "Struct" -> compareFields(st, a, b, fieldPath, depth, sp)
      [] a.kind = "Map" ->
            IF IsNil(a) # IsNil(b) THEN setNilDiff(st, fieldPath, a, b)
            ELSE LET st1 == IF LenOf(st.heap, a) # LenOf(st.heap, b)
                            THEN setLenDiff(st, fieldPath, a, b) ELSE st
                 IN  compareKeys(st1, a, b, fieldPath, depth, sp,
                                 MapKeys(st.heap, a, st.order))
      [] a.kind = "String" -> compareString(st, a, b, fieldPath, depth, sp)
      [] OTHER -> IF ~DeepEqual(a.v, b.v) THEN setDiff(st, fieldPath, a, b) ELSE st

\* The depth guard of doCompare.
depthExceeded(depth) == depth > maxDepth

\* One call doCompare(a, b, fieldPath, depth), up to the calls it makes, which
\* it leaves pending. A call nested deeper than the runtime's stack holds ends
\* the process.
doCompare(st0, a, b, fieldPath, depth, sp) ==
    IF sp > MaxStack THEN Panic(st0, stackOverflow)
    ELSE LET st == Note(st0, Event("visit", fieldPath, depth, sp, a.kind))
             c == FirstComparator(fieldPath)
         IN  IF depthExceeded(depth) THEN Panic(st, depthPanic)
             ELSE IF ~IsValid(a) THEN Panic(st, reflectPanic)
             ELSE IF ~IsValid(b) THEN Panic(st, invalidPanic)
             ELSE IF a.type # b.type THEN Panic(st, typePanic)
             ELSE IF c # 0 THEN useComparator(st, comparators[c], a, b, fieldPath, depth, sp)
             ELSE compareKind(st, a, b, fieldPath, depth, sp)

\* Compare(a, b) up to its call of doCompare: the type guard and the root path.
compareEntry(st, a, b) ==
    IF ~IsValid(a) \/ ~IsValid(b) THEN Panic(st, reflectPanic)
    ELSE IF a.type # b.type THEN Panic(st, typePanic)
    ELSE IF a.kind = "Ptr" /\ a.ptr = 0 THEN Panic(st, reflectPanic)
    ELSE LET tName == IF a.kind = "Ptr" THEN Elem(st.heap, a).name ELSE a.name
         IN  Descend(st, <<Task(a, b, iF(isStringBlank(tName), initTypeName, tName), 0, 0)>>)

-----------------------------------------------------------------------------
(* The methods of Differ. Every call records itself in call and how it      *)
(* ended in out.                                                            *)

Idle == stack = <<>>

Called(op) == /\ Idle
              /\ call' = [op |-> op]
              /\ out' = "ok"

Init ==
    /\ diffs = <<>>
    /\ ignores = <<>>
    /\ includes = <<>>
    /\ trimSpaces = <<>>
    /\ trimTags = <<>>
    /\ comparators = <<>>
    /\ sorters = <<>>
    /\ maxDepth = defaultDepthLimit
    /\ diffTmpl = ""
    /\ bff = <<>>
    /\ mem = <<>>
    /\ out = "ok"
    /\ ret = <<>>
    /\ call = [op |-> "NewDiffer"]
    /\ args = [a |-> Invalid, b |-> Invalid, heap |-> <<>>]
    /\ stack = <<>>
    /\ mapOrder = <<>>
    /\ log = <<>>
    /\ nCompares = 0
    /\ includesCalled = FALSE

\* The orders a range over the map d.diffs may yield the keys in S.
Orders(S) ==
    {o \in [1..Cardinality(S) -> S] : \A i, j \in DOMAIN o : i # j => o[i] # o[j]}

\* diff.String(tmpl): the field path and both values, under the template.
diffString(df, tmpl) == [tmpl |-> tmpl, field |-> df.field, a |-> df.a, b |-> df.b]

String ==
    /\ Len(bff) + Cardinality(DOMAIN diffs) <= MaxBuf
    /\ \E o \in Orders(DOMAIN diffs) :
          bff' = bff \o [i \in DOMAIN o |-> diffString(diffs[o[i]], diffTmpl)]
    /\ ret' = bff'
    /\ Called("String")
    /\ UNCHANGED <<diffs, config, mem, args, walk, nCompares, includesCalled>>

Diffs ==
    /\ \E o \in Orders(DOMAIN diffs) : ret' = [i \in DOMAIN o |-> diffs[o[i]]]
    /\ Called("Diffs")
    /\ UNCHANGED <<session, mem, args, walk, nCompares, includesCalled>>

WithMaxDepth(depth) ==
    /\ maxDepth' = depth
    /\ Called("WithMaxDepth")
    /\ UNCHANGED <<diffs, ignores, includes, trimSpaces, trimTags, comparators, sorters,
                   diffTmpl, bff, mem, ret, args, walk, nCompares, includesCalled>>

WithTmpl(tmpl) ==
    /\ diffTmpl' = tmpl
    /\ Called("WithTmpl")
    /\ UNCHANGED <<diffs, ignores, includes, trimSpaces, trimTags, comparators, sorters,
                   maxDepth, bff, mem, ret, args, walk, nCompares, includesCalled>>

Ignore(regexps) ==
    /\ ignores' = IF Len(includes) > 0 THEN ignores ELSE regexps
    /\ Called("Ignore")
    /\ UNCHANGED <<diffs, includes, trimSpaces, trimTags, comparators, sorters, maxDepth,
                   diffTmpl, bff, mem, ret, args, walk, nCompares, includesCalled>>

Includes(regexps) ==
    /\ includes' = regexps
    /\ includesCalled' = TRUE
    /\ Called("Includes")
    /\ UNCHANGED <<diffs, ignores, trimSpaces, trimTags, comparators, sorters, maxDepth,
                   diffTmpl, bff, mem, ret, args, walk, nCompares>>

WithComparator(c) ==
    /\ Len(comparators) < MaxRules
    /\ comparators' = Append(comparators, c)
    /\ Called("WithComparator")
    /\ UNCHANGED <<diffs, ignores, includes, trimSpaces, trimTags, sorters, maxDepth,
                   diffTmpl, bff, mem, ret, args, walk, nCompares, includesCalled>>

WithSorter(s) ==
    /\ Len(sorters) < MaxRules
    /\ sorters' = Append(sorters, s)
    /\ Called("WithSorter")
    /\ UNCHANGED <<diffs, ignores, includes, trimSpaces, trimTags, comparators, maxDepth,
                   diffTmpl, bff, mem, ret, args, walk, nCompares, includesCalled>>

WithTrim(fieldPath, cutset) ==
    /\ Len(trimTags) < MaxRules
    /\ trimTags' = Append(trimTags, newTrimTag(fieldPath, cutset))
    /\ Called("WithTrim")
    /\ UNCHANGED <<diffs, ignores, includes, trimSpaces, comparators, sorters, maxDepth,
                   diffTmpl, bff, mem, ret, args, walk, nCompares, includesCalled>>

WithTrimSpace(fieldPaths) ==
    /\ Len(trimSpaces) + Len(fieldPaths) <= MaxRules
    /\ trimSpaces' = trimSpaces \o fieldPaths
    /\ Called("WithTrimSpace")
    /\ UNCHANGED <<diffs, ignores, includes, trimTags, comparators, sorters, maxDepth,
                   diffTmpl, bff, mem, ret, args, walk, nCompares, includesCalled>>

FindDiff(fieldName) ==
    /\ ret' = IF fieldName \in DOMAIN diffs THEN <<diffs[fieldName]>> ELSE <<>>
    /\ Called("FindDiff")
    /\ UNCHANGED <<session, mem, args, walk, nCompares, includesCalled>>

FindDiffFuzzily(expr) ==
    /\ \E o \in Orders({name \in DOMAIN diffs : expr.ok /\ MatchString(expr, name)}) :
          ret' = [i \in DOMAIN o |-> diffs[o[i]]]
    /\ Called("FindDiffFuzzily")
    /\ UNCHANGED <<session, mem, args, walk, nCompares, includesCalled>>

Reset ==
    /\ includes' = <<>>
    /\ ignores' = <<>>
    /\ trimSpaces' = <<>>
    /\ trimTags' = <<>>
    /\ comparators' = <<>>
    /\ sorters' = <<>>
    /\ diffs' = <<>>
    /\ bff' = <<>>
    /\ nCompares' = 0
    /\ Called("Reset")
    /\ UNCHANGED <<maxDepth, diffTmpl, mem, ret, args, walk, includesCalled>>

\* What a step of Compare leaves: a panic drops the pending calls; when none
\* is left the call has returned (or panicked), and the copies it made are
\* garbage.
Leave(st, heap0) ==
    LET done == st.out # "ok" \/ st.stack = <<>>
    IN  /\ diffs' = st.diffs
        /\ out' = st.out
        /\ log' = st.log
        /\ stack' = IF done THEN <<>> ELSE st.stack
        /\ mem' = IF done THEN SubSeq(st.heap, 1, Len(heap0)) ELSE st.heap

\* Compare(a, b), up to its call of doCompare.
Compare(in, keyOrder) ==
    /\ Idle
    /\ nCompares < MaxCompares
    /\ Leave(compareEntry([diffs |-> diffs, heap |-> in.heap, out |-> "ok",
                           order |-> keyOrder, stack |-> <<>>, log |-> <<>>],
                          in.a, in.b),
             in.heap)
    /\ call' = [op |-> "Compare"]
    /\ args' = in
    /\ mapOrder' = keyOrder
    /\ nCompares' = nCompares + 1
    /\ UNCHANGED <<config, bff, ret, includesCalled>>

\* The next pending call of doCompare of the running Compare.
Descent ==
    /\ ~Idle
    /\ LET t == Head(stack)
       IN  Leave(doCompare([diffs |-> diffs, heap |-> mem, out |-> "ok", order |-> mapOrder,
                            stack |-> Tail(stack), log |-> log],
                           t.a, t.b, t.path, t.depth, t.sp),
                 args.heap)
    /\ UNCHANGED <<config, bff, ret, call, args, mapOrder, nCompares, includesCalled>>

\* The last call was a Compare, and it has returned or panicked.
Compared == call.op = "Compare" /\ Idle

-----------------------------------------------------------------------------
(* The values the callers of the model compare: [a, b, heap].               *)

Person(name, age) ==
    StructV("Person", <<"Name", "Age">>, <<StringV(name), IntV(age)>>)
Outer(p) == StructV("Outer", <<"Inner">>, <<p>>)
Box(d) == StructV("Box", <<"V">>, <<InterfaceV(d)>>)
Node(p) == StructV("Node", <<"Next">>, <<PtrV("*Node", "", p)>>)
Order(p, n) == StructV("Order", <<"Items">>, <<SliceV("[]int", p, n)>>)
Pair(x, y) == ArrayV("[2]int", <<IntV(x), IntV(y)>>)
Grid(x, y) == StructV("Grid", <<"Cells">>, <<Pair(x, y)>>)
Memo(comment, title) ==
    StructV("Memo", <<"Comment", "Title">>, <<StringV(comment), StringV(title)>>)
Ints(p, n) == SliceV("[]int", p, n)
IntMap(p) == MapV("map[string]int", p)
Anys(p, n) == SliceV("[]interface {}", p, n)
AnyMap(p) == MapV("map[string]interface {}", p)

In(a, b, heap) == [a |-> a, b |-> b, heap |-> heap]

Alice == <<"A", "l">>
Bob == <<"B", "o">>

\* Scalars and records.
InIntSame == In(IntV(1), IntV(1), <<>>)
InIntDiff == In(IntV(1), IntV(2), <<>>)
InTypes == In(IntV(1), StringV(Alice), <<>>)
InPersonSame == In(Person(Alice, 30), Person(Alice, 30), <<>>)
InPersonName == In(Person(Alice, 30), Person(Bob, 30), <<>>)
InPersonBoth == In(Person(Alice, 30), Person(Bob, 31), <<>>)
InOuter == In(Outer(Person(Alice, 30)), Outer(Person(Alice, 31)), <<>>)
\* Slices.
InSliceLen ==
    In(Ints(1, 3), Ints(2, 2), <<<<IntV(1), IntV(2), IntV(3)>>, <<IntV(1), IntV(2)>>>>)
InSliceNil == In(Ints(0, 0), Ints(1, 1), <<<<IntV(1)>>>>)
InSliceSame == In(Ints(1, 2), Ints(1, 2), <<<<IntV(1), IntV(2)>>>>)
InSliceSwap ==
    In(Ints(1, 2), Ints(2, 2), <<<<IntV(1), IntV(2)>>, <<IntV(2), IntV(1)>>>>)
\* Maps.
InMapSize ==
    In(IntMap(1), IntMap(2), <<[x |-> IntV(1)], [x |-> IntV(2), y |-> IntV(3)]>>)
InMapAbsent == In(IntMap(1), IntMap(2), <<[x |-> IntV(1)], [y |-> IntV(1)]>>)
InMapAbsent2 ==
    In(IntMap(1), IntMap(2), <<[x |-> IntV(1), y |-> IntV(2)], [x |-> IntV(3)]>>)
InMapSame == In(IntMap(1), IntMap(1), <<[x |-> IntV(1), y |-> IntV(2)]>>)
InMapEqual ==
    In(IntMap(1), IntMap(2), <<[x |-> IntV(1), y |-> IntV(2)], [x |-> IntV(1), y |-> IntV(2)]>>)
InMapNil == In(IntMap(0), IntMap(1), <<[x |-> IntV(1)]>>)
\* Interfaces.
InBoxNil == In(Box(Invalid), Box(Invalid), <<>>)
InBoxString == In(Box(StringV(Alice)), Box(StringV(Alice)), <<>>)
InBoxStrings == In(Box(StringV(Alice)), Box(StringV(Bob)), <<>>)
InBoxFloats == In(Box(Float64V(1)), Box(Float64V(2)), <<>>)
InBoxMixed == In(Box(StringV(Alice)), Box(Float64V(1)), <<>>)
InBoxHalf == In(Box(Invalid), Box(StringV(Alice)), <<>>)
InBoxInt == In(Box(IntV(1)), Box(IntV(1)), <<>>)
InBoxMap ==
    In(Box(AnyMap(1)), Box(AnyMap(2)),
       <<[k |-> InterfaceV(Float64V(1))], [k |-> InterfaceV(Float64V(2))]>>)
InBoxSlice ==
    In(Box(Anys(1, 2)), Box(Anys(2, 2)),
       <<<<InterfaceV(Float64V(1)), InterfaceV(StringV(Alice))>>,
         <<InterfaceV(Float64V(1)), InterfaceV(StringV(Bob))>>>>)
\* Pointers.
InPtrSame == In(PtrV("*Node", "", 1), PtrV("*Node", "", 1), <<<<Node(0)>>>>)
InPtrNil == In(PtrV("*Node", "", 0), PtrV("*Node", "", 0), <<>>)
InPtrList ==
    In(PtrV("*Node", "", 1), PtrV("*Node", "", 2), <<<<Node(0)>>, <<Node(3)>>, <<Node(0)>>>>)
\* Self-referential values: a list node pointing to itself, a slice and a map
\* of interface{} holding themselves, a pointer of type P *P pointing to itself.
InCycleNode ==
    In(PtrV("*Node", "", 1), PtrV("*Node", "", 2), <<<<Node(1)>>, <<Node(2)>>>>)
InCycleSlice ==
    In(Anys(1, 1), Anys(2, 1), <<<<InterfaceV(Anys(1, 1))>>, <<InterfaceV(Anys(2, 1))>>>>)
InCycleMap ==
    In(AnyMap(1), AnyMap(2), <<[k |-> InterfaceV(AnyMap(1))], [k |-> InterfaceV(AnyMap(2))]>>)
InCyclePtr == In(PtrV("P", "P", 1), PtrV("P", "P", 2), <<<<PtrV("P", "P", 1)>>, <<PtrV("P", "P", 2)>>>>)
\* Fixed arrays.
InPair == In(Pair(1, 2), Pair(3, 4), <<>>)
InPairSame == In(Pair(1, 2), Pair(1, 2), <<>>)
InGrid == In(Grid(1, 2), Grid(1, 3), <<>>)
InGridBoth == In(Grid(1, 2), Grid(3, 4), <<>>)

CoreInputs ==
    <<InIntSame, InIntDiff, InTypes, InPersonSame, InPersonName, InPersonBoth, InOuter,
      InSliceLen, InSliceNil, InSliceSame, InSliceSwap,
      InMapSize, InMapAbsent, InMapAbsent2, InMapSame, InMapEqual, InMapNil,
      InBoxNil, InBoxString, InBoxStrings, InBoxFloats, InBoxMixed, InBoxHalf, InBoxInt,
      InBoxMap, InBoxSlice, InPtrSame, InPtrNil, InPtrList,
      InCycleNode, InCycleSlice, InCycleMap, InCyclePtr,
      InPair, InPairSame, InGrid, InGridBoth>>

\* The orders a.MapKeys() may yield the keys of the model's maps in.
KeyOrders == {<<"x", "y", "k">>, <<"y", "x", "k">>}

\* The depth limits the callers of the model set.
DepthChoices == {0, 1, defaultDepthLimit}

-----------------------------------------------------------------------------
(* The engine alone: Compare on a session that only its depth limit         *)
(* configures.                                                              *)

Next ==
    \/ \E depth \in DepthChoices : WithMaxDepth(depth)
    \/ \E i \in DOMAIN CoreInputs, keyOrder \in KeyOrders :
            Compare(CoreInputs[i], keyOrder)
    \/ Descent
    \/ Reset

Spec == Init /\ [][Next]_vars

-----------------------------------------------------------------------------
(* Filters: Ignore, Includes, Reset and the other setters, between Compares *)
(* of values that differ at several paths.                                  *)

ReName == Re({"Person.Name"})
ReAge == Re({"Person.Age"})
RePerson == Re({"Person.Name", "Person.Age"})
ReLength == Re({"$[Length]"})

FilterLists == {<<>>, <<ReName>>, <<ReAge, ReLength>>, <<RePerson>>}

\* The callers of the model give Includes at least one pattern.
IncludeLists == FilterLists \ {<<>>}

FilterInputs == <<InPersonName, InPersonBoth, InSliceLen, InMapSize>>

Templates == {"", "%s: %v != %v"}

NextFilter ==
    \/ \E regexps \in FilterLists : Ignore(regexps)
    \/ \E regexps \in IncludeLists : Includes(regexps)
    \/ \E tmpl \in Templates : WithTmpl(tmpl)
    \/ \E i \in DOMAIN FilterInputs, keyOrder \in KeyOrders :
            Compare(FilterInputs[i], keyOrder)
    \/ Descent
    \/ Reset

SpecFilter == Init /\ [][NextFilter]_vars

-----------------------------------------------------------------------------
(* Sorters: WithSorter between Compares of slices.                          *)

Item(id, tag) == StructV("Item", <<"ID", "Tag">>, <<IntV(id), StringV(tag)>>)
Items(p, n) == SliceV("[]Item", p, n)

InSlicePerm ==
    In(Ints(1, 3), Ints(2, 3),
       <<<<IntV(3), IntV(1), IntV(2)>>, <<IntV(2), IntV(3), IntV(1)>>>>)
InSliceDup ==
    In(Ints(1, 3), Ints(2, 3),
       <<<<IntV(1), IntV(1), IntV(2)>>, <<IntV(1), IntV(2), IntV(1)>>>>)
InSliceOther ==
    In(Ints(1, 2), Ints(2, 2), <<<<IntV(2), IntV(1)>>, <<IntV(3), IntV(1)>>>>)
InOrderSwap ==
    In(Order(1, 2), Order(2, 2), <<<<IntV(1), IntV(2)>>, <<IntV(2), IntV(1)>>>>)
InItemsSwap ==
    In(Items(1, 2), Items(2, 2),
       <<<<Item(2, Bob), Item(1, Alice)>>, <<Item(1, Alice), Item(2, Bob)>>>>)

SortInputs ==
    <<InSliceSwap, InSlicePerm, InSliceDup, InSliceOther, InSliceLen, InSliceSame,
      InOrderSwap, InItemsSwap>>

Sorter(id, match, desc) == [id |-> id, match |-> match, desc |-> desc]

Sorters ==
    {Sorter("root", Re({"$"}), FALSE),
     Sorter("items", Re({"Order.Items"}), TRUE),
     Sorter("any", Re({"$", "Order.Items"}), TRUE)}

NextSort ==
    \/ \E s \in Sorters : WithSorter(s)
    \/ \E i \in DOMAIN SortInputs, keyOrder \in KeyOrders : Compare(SortInputs[i], keyOrder)
    \/ Descent
    \/ Reset

SpecSort == Init /\ [][NextSort]_vars

-----------------------------------------------------------------------------
(* Comparators: WithComparator between Compares. A Comparator is a matcher  *)
(* and an Equals, which answers a DiffType and the two values to report.    *)

Comparator(id, match, dt) ==
    [id |-> id, match |-> match, dt |-> dt, va |-> "va:" \o id, vb |-> "vb:" \o id]

Comparators ==
    {Comparator("no", Re({"$", "Person.Name"}), NoDiff),
     Comparator("len", Re({"$", "Person", "Person.Name"}), LengthDiff),
     Comparator("nil", Re({"Node", "Person.Age"}), NilDiff),
     Comparator("elem", Re({"Person", "int", "Person.Age"}), ElemDiff),
     Comparator("bad", Re({"Person.Age", "$"}), "DiffType(7)")}

CmpInputs == <<InIntDiff, InPersonBoth, InSliceLen, InPtrList>>

NextCmp ==
    \/ \E c \in Comparators : WithComparator(c)
    \/ \E i \in DOMAIN CmpInputs, keyOrder \in KeyOrders : Compare(CmpInputs[i], keyOrder)
    \/ Descent
    \/ Reset

SpecCmp == Init /\ [][NextCmp]_vars

-----------------------------------------------------------------------------
(* Trim rules: WithTrim and WithTrimSpace between Compares of records of    *)
(* strings.                                                                 *)

ReComment == Re({"Memo.Comment"})
ReTitle == Re({"Memo.Title"})
ReMemo == Re({"Memo.Comment", "Memo.Title"})

InMemoSpace == In(Memo(<<"h", "i", " ">>, <<"t">>), Memo(<<"h", "i">>, <<" ", "t">>), <<>>)
InMemoCut == In(Memo(<<"x", "h", "i", "x">>, <<"t">>), Memo(<<"h", "i">>, <<"t", "x">>), <<>>)
InMemoBoth == In(Memo(<<" ", "x", "h", "i">>, <<"t">>), Memo(<<"h", "i", "x">>, <<"u">>), <<>>)
InMemoSame == In(Memo(<<"h", "i">>, <<"t">>), Memo(<<"h", "i">>, <<"t">>), <<>>)

TrimInputs == <<InMemoSpace, InMemoCut, InMemoBoth, InMemoSame>>

Cutsets == {<<"x">>, <<" ", "x">>}

TrimPaths == {ReComment, ReMemo}

TrimSpaceLists == {<<ReComment>>, <<ReTitle>>, <<ReTitle, ReComment>>}

NextTrim ==
    \/ \E fieldPath \in TrimPaths, cutset \in Cutsets : WithTrim(fieldPath, cutset)
    \/ \E fieldPaths \in TrimSpaceLists : WithTrimSpace(fieldPaths)
    \/ \E i \in DOMAIN TrimInputs, keyOrder \in KeyOrders : Compare(TrimInputs[i], keyOrder)
    \/ Descent
    \/ Reset

SpecTrim == Init /\ [][NextTrim]_vars

-----------------------------------------------------------------------------
(* Queries: FindDiff, FindDiffFuzzily, Diffs and String after Compares.     *)

QueryInputs == <<InIntDiff, InPersonBoth, InPersonSame>>

FieldNames == {"Person.Name", "int", "Person"}

Exprs == {RePerson, Re({"int", "Person.Age"}), BadRe}

NextQuery ==
    \/ \E fieldName \in FieldNames : FindDiff(fieldName)
    \/ \E expr \in Exprs : FindDiffFuzzily(expr)
    \/ Diffs
    \/ String
    \/ \E tmpl \in Templates : WithTmpl(tmpl)
    \/ \E i \in DOMAIN QueryInputs, keyOrder \in KeyOrders :
            Compare(QueryInputs[i], keyOrder)
    \/ Descent
    \/ Reset

SpecQuery == Init /\ [][NextQuery]_vars

-----------------------------------------------------------------------------
(* Properties. They speak of the last Compare through args (what it was     *)
(* given), log (what it did) and the session it left.                       *)

Events(ev) == {i \in DOMAIN log : log[i].ev = ev}

\* a == b in Go: by value for scalars, records, arrays and interface payloads,
\* by identity for pointers, slices and maps.
RECURSIVE GoEqual(_, _)
GoEqual(a, b) ==
    /\ a.type = b.type
    /\ CASE a.kind = "Invalid" -> TRUE
         [] a.kind = "Struct" ->
                \A i \in DOMAIN a.fields : GoEqual(a.fields[i], b.fields[i])
         [] a.kind = "Array" -> \A i \in DOMAIN a.elems : GoEqual(a.elems[i], b.elems[i])
         [] a.kind = "Interface" -> GoEqual(a.dyn, b.dyn)
         [] a.kind = "Slice" -> a.ptr = b.ptr /\ a.len = b.len
         [] a.kind \in {"Ptr", "Map"} -> a.ptr = b.ptr
         [] OTHER -> a.v = b.v

\* C1: comparing two equal values of one type on a fresh session with the
\* default configuration ends without a panic and leaves no diff, whatever
\* their kind (an interface holding nil on both sides included).
C1_EqualValuesNoDiff ==
    (Compared /\ nCompares = 1 /\ maxDepth = defaultDepthLimit /\ GoEqual(args.a, args.b))
        => (out = "ok" /\ DOMAIN diffs = {})

\* The filter rule of the Diff Sink, from the configuration alone.
Recorded(path) ==
    IF Len(includes) > 0 THEN \E i \in DOMAIN includes : path \in includes[i].lang
    ELSE IF Len(ignores) > 0 THEN \A i \in DOMAIN ignores : path \notin ignores[i].lang
    ELSE TRUE

\* C2: every difference handed to setDiff is stored if and only if the filter
\* rule derived from the current configuration admits its path: with include
\* patterns, a match of one of them; else with exclude patterns, a match of
\* none; else always.
C2_FilterModeDerived ==
    Compared =>
        \A i \in Events("setDiff") :
            /\ Recorded(log[i].path) => log[i].path \in DOMAIN diffs
            /\ (nCompares = 1 /\ ~Recorded(log[i].path)) => log[i].path \notin DOMAIN diffs
            /\ Recorded(log[i].path) <=> log[i].s = "stored"

C2_Witness ==
    /\ Compared
    /\ Len(includes) = 0
    /\ Len(ignores) > 0
    /\ \E i, j \in Events("setDiff") :
          /\ log[i].path \in DOMAIN diffs
          /\ log[j].path \notin DOMAIN diffs

\* C3 as claimed: once Includes has been called on a session, no exclude
\* pattern ever drops a difference, whatever calls follow.
C3_ExcludesInertForever ==
    (includesCalled /\ Compared) => \A i \in Events("setDiff") : log[i].s # ignoreMode

\* C3 as amended: while at least one include pattern is configured, no
\* exclude pattern drops a difference, whether Ignore was called before or
\* after Includes: every difference at an included path is stored.
C3_ExcludesInertWhileIncluding ==
    (Compared /\ Len(includes) > 0) =>
        \A i \in Events("setDiff") :
            /\ log[i].s # ignoreMode
            /\ (\E k \in DOMAIN includes : log[i].path \in includes[k].lang)
                    => log[i].path \in DOMAIN diffs

C3_Witness ==
    /\ Compared
    /\ Len(includes) > 0
    /\ \E i \in Events("setDiff") :
          /\ \E k \in DOMAIN ignores : log[i].path \in ignores[k].lang
          /\ log[i].path \in DOMAIN diffs

\* C4: comparing two non-nil maps descends into every key of A at the path
\* parent[key], and a key B lacks is compared against a zero value without a
\* panic.
C4_AbsentKeyIsZeroValue ==
    (Compared /\ args.a.type = "map[string]int" /\ args.a.ptr # 0 /\ args.b.ptr # 0) =>
        /\ out = "ok"
        /\ \A k \in DOMAIN args.heap[args.a.ptr] :
              \E i \in Events("visit") : log[i].path = concat3("$[", toString(k), "]")

\* C5: Compare ends by returning or by the depth panic, raised at the first
\* call whose depth exceeds the limit; the descent never runs away.
C5_CompareTerminates ==
    Compared =>
        /\ out # stackOverflow
        /\ \A i \in Events("visit") :
              log[i].depth > maxDepth => (i = Len(log) /\ out = depthPanic)

\* The slices Compare meets in the values of the model, with their paths.
SlicesOf(in) ==
    IF in.a.kind = "Slice" THEN {[path |-> "$", sa |-> in.a, sb |-> in.b]}
    ELSE IF in.a.type = "Order"
    THEN {[path |-> "Order.Items", sa |-> in.a.fields[1], sb |-> in.b.fields[1]]}
    ELSE {}

Count(s, x) == Cardinality({i \in DOMAIN s : s[i] = x})

SameElements(s, t) ==
    /\ Len(s) = Len(t)
    /\ \A i \in DOMAIN s : Count(s, s[i]) = Count(t, s[i])

ElementsOf(h, sv) == IF sv.ptr = 0 THEN <<>> ELSE SubSeq(h[sv.ptr], 1, sv.len)

QueryOps == {"FindDiff", "FindDiffFuzzily", "Diffs", "String"}

\* C7: no query changes the session, and a String() right after a String()
\* returns what the first returned.
C7_QueriesDoNotMutate ==
    [][/\ call'.op \in QueryOps => session' = session
       /\ (call.op = "String" /\ call'.op = "String") => ret' = ret]_vars

\* The comparators whose matcher matches the path, by their place in the list.
Matching(path) == {k \in DOMAIN comparators : path \in comparators[k].match.lang}

Least(S) == CHOOSE k \in S : \A j \in S : k <= j

\* What may follow the call of a comparator in the log: the end, or the next
\* call of doCompare, which is no deeper than the one the comparator decided.
Returned(i, sp) == i > Len(log) \/ (log[i].ev = "visit" /\ log[i].sp <= sp)

\* C8: at a path some comparator matches, the first matching comparator of the
\* list is the one called, nothing descends below the path, and the outcome
\* is: NoDiff nothing; LengthDiff, NilDiff, ElemDiff at most one record, at
\* path.$[customized] or below it; any other code the protocol panic.
C8_FirstComparatorDecides ==
    Compared =>
        /\ \A i \in Events("visit") :
              Matching(log[i].path) # {} =>
                  IF i = Len(log)
                  THEN out \in {depthPanic, reflectPanic, invalidPanic, typePanic}
                  ELSE log[i + 1].ev = "comparator" /\ log[i + 1].path = log[i].path
        /\ \A i \in Events("comparator") :
              LET path == log[i].path
                  c == comparators[Least(Matching(path))]
              IN  /\ Matching(path) # {}
                  /\ log[i].s = c.id
                  /\ CASE c.dt = NoDiff -> Returned(i + 1, log[i].sp)
                       [] c.dt \in {LengthDiff, NilDiff, ElemDiff} ->
                            \/ Returned(i + 1, log[i].sp)
                            \/ /\ log[i + 1].ev = "setDiff"
                               /\ log[i + 1].path \in
                                    {path \o useComparatorSuffix,
                                     path \o useComparatorSuffix \o "[Length]"}
                               /\ Returned(i + 2, log[i].sp)
                       [] OTHER -> i = Len(log) /\ out = protocolPanic

C8_Witness ==
    /\ Compared
    /\ \E i \in Events("comparator") :
          /\ Cardinality(Matching(log[i].path)) = 2
          /\ comparators[1].id # comparators[2].id
          /\ i < Len(log)
          /\ log[i + 1].ev = "setDiff"
          /\ log[i + 1].path \in DOMAIN diffs

\* The textual leaves of the records of strings the model compares.
LeavesOf(in) ==
    IF in.a.type = "Memo"
    THEN {[path |-> concat3("Memo", ".", in.a.names[i]), a |-> in.a.fields[i],
           b |-> in.b.fields[i]] : i \in DOMAIN in.a.fields}
    ELSE {}

SpaceRule(path) == \E k \in DOMAIN trimSpaces : path \in trimSpaces[k].lang

CutRules(path) == {k \in DOMAIN trimTags : path \in trimTags[k].fieldRegexp.lang}

DiffersBySpace(l) == TrimSpace(l.a.v) # TrimSpace(l.b.v)

DiffersByCut(l) ==
    LET cutset == trimTags[Least(CutRules(l.path))].cutset
    IN  Trim(l.a.v, cutset) # Trim(l.b.v, cutset)

\* The leaf was reported exactly when differs says so, once, with the
\* untrimmed values of both sides.
Reported(l, differs) ==
    LET sets == {i \in Events("setDiff") : log[i].path = l.path}
    IN  /\ differs <=> sets # {}
        /\ Cardinality(sets) <= 1
        /\ differs => /\ l.path \in DOMAIN diffs
                      /\ diffs[l.path].a = l.a
                      /\ diffs[l.path].b = l.b

\* C9 as claimed: at a textual leaf a matching cutset rule decides; a matching
\* trim-space rule only when no cutset rule matches; else the plain values.
C9_CutsetFirst ==
    Compared =>
        \A l \in LeavesOf(args) :
            Reported(l, IF CutRules(l.path) # {} THEN DiffersByCut(l)
                        ELSE IF SpaceRule(l.path) THEN DiffersBySpace(l)
                        ELSE l.a.v # l.b.v)

\* C9 as amended: at a textual leaf a matching trim-space rule decides; a
\* matching cutset rule only when no trim-space rule matches; else the plain
\* values. The difference carries the untrimmed values and the leaf is
\* compared once.
C9_TrimSpaceFirst ==
    Compared =>
        \A l \in LeavesOf(args) :
            Reported(l, IF SpaceRule(l.path) THEN DiffersBySpace(l)
                        ELSE IF CutRules(l.path) # {} THEN DiffersByCut(l)
                        ELSE l.a.v # l.b.v)

C9_Witness ==
    /\ Compared
    /\ \E l \in LeavesOf(args) :
          /\ SpaceRule(l.path)
          /\ CutRules(l.path) # {}
          /\ DiffersBySpace(l)
          /\ ~DiffersByCut(l)
          /\ l.path \in DOMAIN diffs

\* C10: after one Compare on an empty session without filters, as many diffs
\* are stored as disagreements were detected: none is lost or overwritten.
C10_OneRecordPerDisagreement ==
    (Compared /\ nCompares = 1) =>
        Cardinality(DOMAIN diffs) = Cardinality(Events("setDiff"))

=============================================================================
